---- MODULE Spec2Model ----
(***************************************************************************)
(* A model of backend/vqa_api.py: the /upload, /ask and /health handlers   *)
(* of the VQA SmartDoc backend, their validation, their single outbound    *)
(* call to the storage (Cloudinary) or inference (HuggingFace)             *)
(* collaborator, the translation of the collaborator's outcome into an     *)
(* HTTP response, and parse_vqa_response.                                  *)
(*                                                                         *)
(* Text that the code inspects character by character (file names,         *)
(* questions) is a sequence of one-character strings; text that it only    *)
(* builds or passes on is a string.  A byte body is modelled by its        *)
(* length, the only thing the handlers read of it.  A score or confidence  *)
(* is an integer number of hundredths (0.92 is 92).                        *)
(***************************************************************************)
EXTENDS Integers, Sequences, FiniteSets, TLC

VARIABLES
    env,        \* the module configuration globals, read once at import
    sdkConfig,  \* the Cloudinary library's process-wide configuration
    now,        \* the wall clock, time.time()
    req         \* per request slot: the request in flight and its response

vars == <<env, sdkConfig, now, req>>

\* The clock stops at MaxTime so that the state space is finite.
MaxTime == 2

\* The slots in which requests are served (concurrently, one per slot).
Slots == {"r1", "r2"}

-----------------------------------------------------------------------------
(* Text helpers: str.lower, str.strip, os.path.splitext.                   *)

Up2Low ==
    [c \in {"A", "G", "J", "N", "P"} |->
        CASE c = "A" -> "a" [] c = "G" -> "g" [] c = "J" -> "j"
          [] c = "N" -> "n" [] c = "P" -> "p"]

\* str.lower()
Lower(s) ==
    [i \in 1..Len(s) |-> IF s[i] \in DOMAIN Up2Low THEN Up2Low[s[i]] ELSE s[i]]

Whitespace == {" ", "\t", "\n"}

RECURSIVE LStrip(_)
LStrip(s) ==
    IF s # <<>> /\ Head(s) \in Whitespace THEN LStrip(Tail(s)) ELSE s

RECURSIVE RStrip(_)
RStrip(s) ==
    IF s # <<>> /\ s[Len(s)] \in Whitespace
    THEN RStrip(SubSeq(s, 1, Len(s) - 1)) ELSE s

\* str.strip()
Strip(s) == RStrip(LStrip(s))

\* str.rfind(c) with 1-based positions: 0 when c does not occur.
RFind(s, c) ==
    LET hits == {i \in 1..Len(s) : s[i] = c}
    IN  IF hits = {} THEN 0 ELSE CHOOSE i \in hits : \A j \in hits : j <= i

\* os.path.splitext(p)[1]: the text from the last dot of the last path
\* component, unless that component has nothing but dots before it.
SplitExt(p) ==
    LET sepIndex == RFind(p, "/")
        dotIndex == RFind(p, ".")
    IN  IF dotIndex > sepIndex
           /\ \E k \in (sepIndex + 1)..(dotIndex - 1) : p[k] # "."
        THEN SubSeq(p, dotIndex, Len(p))
        ELSE <<>>

-----------------------------------------------------------------------------
(* Configuration.                                                          *)

MAX_FILE_SIZE == 10 * 1024 * 1024

ALLOWED_EXTENSIONS ==
    { <<".", "j", "p", "g">>, <<".", "j", "p", "e", "g">>,
      <<".", "p", "n", "g">>, <<".", "g", "i", "f">>,
      <<".", "p", "d", "f">>, <<".", "w", "e", "b", "p">> }

\* all([CLOUDINARY_CLOUD_NAME, CLOUDINARY_API_KEY, CLOUDINARY_API_SECRET])
CloudinaryConfigured == env.cloud_name /\ env.api_key /\ env.api_secret

\* bool(HUGGINGFACE_API_TOKEN)
HfConfigured == env.hf_token

-----------------------------------------------------------------------------
(* JSON values as the inference collaborator may return them.  A value is  *)
(* a record with its Python type t and, by type, its text s or number n;   *)
(* an object carries its "answer" and "score" members (absent or a value), *)
(* a list its items.                                                       *)

Absent   == [t |-> "absent", s |-> "", n |-> 0]
Null     == [t |-> "null", s |-> "", n |-> 0]
Str(x)   == [t |-> "str", s |-> x, n |-> 0]
IntV(k)  == [t |-> "int", s |-> "", n |-> k]
Float(h) == [t |-> "float", s |-> "", n |-> h]
BoolV(b) == [t |-> "bool", s |-> "", n |-> IF b THEN 1 ELSE 0]

\* A list item: a scalar, or an object with the two members.
Item(v) == [t |-> v.t, s |-> v.s, n |-> v.n, answer |-> Absent, score |-> Absent]
Obj(a, sc) == [t |-> "dict", s |-> "", n |-> 0, answer |-> a, score |-> sc]

\* A payload: an item, or a list of items.
Scalar(v) == [t |-> v.t, s |-> v.s, n |-> v.n, answer |-> Absent,
              score |-> Absent, items |-> <<>>]
Dict(a, sc) == [t |-> "dict", s |-> "", n |-> 0, answer |-> a, score |-> sc,
                items |-> <<>>]
List(xs) == [t |-> "list", s |-> "", n |-> 0, answer |-> Absent,
             score |-> Absent, items |-> xs]

\* repr() of a float given in hundredths: 0.92, 0.5, 1.0.
FmtFloat(h) ==
    ToString(h \div 100) \o "." \o
    (IF h % 10 = 0 THEN ToString((h % 100) \div 10)
     ELSE IF h % 100 < 10 THEN "0" \o ToString(h % 100)
     ELSE ToString(h % 100))

\* repr() of a scalar, as it appears inside str() of a dict.
Repr(v) ==
    CASE v.t = "str"   -> "'" \o v.s \o "'"
      [] v.t = "int"   -> ToString(v.n)
      [] v.t = "float" -> FmtFloat(v.n)
      [] v.t = "bool"  -> (IF v.n = 1 THEN "True" ELSE "False")
      [] OTHER         -> "None"

\* str() of a payload that is not a list.
PyStr(p) ==
    CASE p.t = "dict" ->
            "{" \o (IF p.answer.t = "absent" THEN ""
                    ELSE "'answer': " \o Repr(p.answer))
                \o (IF p.answer.t # "absent" /\ p.score.t # "absent"
                    THEN ", " ELSE "")
                \o (IF p.score.t = "absent" THEN ""
                    ELSE "'score': " \o Repr(p.score))
                \o "}"
      [] p.t = "str" -> p.s
      [] OTHER       -> Repr(p)

\* Python truth of a payload.
Truthy(p) ==
    CASE p.t = "null" -> FALSE
      [] p.t = "list" -> p.items # <<>>
      [] p.t = "dict" -> p.answer.t # "absent" \/ p.score.t # "absent"
      [] p.t = "str"  -> p.s # ""
      [] OTHER        -> p.n # 0

NO_ANSWER   == "No answer provided"
PARSE_ERROR == "Error parsing response"

\* A variant of parse_vqa_response that reads the members of the first
\* list item without minding that it may be no object.
parse_vqa_response_unguarded(response) ==
    IF response.t = "list" /\ Len(response.items) > 0
    THEN LET answer_data == response.items[1]
         IN  [answer |-> IF answer_data.answer.t = "absent"
                         THEN Str(NO_ANSWER) ELSE answer_data.answer,
              confidence |-> IF answer_data.score.t = "absent"
                             THEN Float(0) ELSE answer_data.score]
    ELSE IF response.t = "dict"
    THEN [answer |-> IF response.answer.t = "absent"
                     THEN Str(PyStr(response)) ELSE response.answer,
          confidence |-> IF response.score.t = "absent"
                         THEN Float(50) ELSE response.score]
    ELSE [answer |-> IF Truthy(response)
                     THEN Str(PyStr(response)) ELSE Str(NO_ANSWER),
          confidence |-> Float(50)]

\* A variant of parse_vqa_response that takes the last list item.
parse_vqa_response_last(response) ==
    IF response.t = "list" /\ Len(response.items) > 0
    THEN LET answer_data == response.items[Len(response.items)]
         IN  IF answer_data.t # "dict"
             THEN [answer |-> Str(PARSE_ERROR), confidence |-> Float(0)]
             ELSE [answer |-> IF answer_data.answer.t = "absent"
                              THEN Str(NO_ANSWER) ELSE answer_data.answer,
                   confidence |-> IF answer_data.score.t = "absent"
                                  THEN Float(0) ELSE answer_data.score]
    ELSE IF response.t = "dict"
    THEN [answer |-> IF response.answer.t = "absent"
                     THEN Str(PyStr(response)) ELSE response.answer,
          confidence |-> IF response.score.t = "absent"
                         THEN Float(50) ELSE response.score]
    ELSE [answer |-> IF Truthy(response)
                     THEN Str(PyStr(response)) ELSE Str(NO_ANSWER),
          confidence |-> Float(50)]

parse_vqa_response(response) ==
    IF response.t = "list" /\ Len(response.items) > 0
    THEN LET answer_data == response.items[1]
         IN  IF answer_data.t # "dict"
             THEN \* .get on a non-object raises; the except clause answers
                  [answer |-> Str(PARSE_ERROR), confidence |-> Float(0)]
             ELSE [answer |-> IF answer_data.answer.t = "absent"
                              THEN Str(NO_ANSWER) ELSE answer_data.answer,
                   confidence |-> IF answer_data.score.t = "absent"
                                  THEN Float(0) ELSE answer_data.score]
    ELSE IF response.t = "dict"
    THEN [answer |-> IF response.answer.t = "absent"
                     THEN Str(PyStr(response)) ELSE response.answer,
          confidence |-> IF response.score.t = "absent"
                         THEN Float(50) ELSE response.score]
    ELSE [answer |-> IF Truthy(response)
                     THEN Str(PyStr(response)) ELSE Str(NO_ANSWER),
          confidence |-> Float(50)]

\* The payloads the inference collaborator is let to return with HTTP 200.
CatItem == Obj(Str("cat"), Float(92))
Payloads ==
    { List(<<>>),
      List(<<CatItem>>),
      List(<<CatItem, Obj(Str("dog"), Float(5))>>),
      List(<<CatItem, Item(Str("junk"))>>),
      List(<<Obj(Str("cat"), Absent)>>),
      List(<<Obj(Absent, Float(92))>>),
      List(<<Obj(Absent, Absent)>>),
      List(<<Obj(Str("cat"), IntV(1))>>),
      List(<<Item(Str("cat"))>>),
      List(<<Item(Null), CatItem>>),
      List(<<Obj(IntV(5), Float(92))>>),
      List(<<Obj(Str("cat"), Str("high"))>>),
      List(<<Obj(Null, Null)>>),
      Dict(Str("dog"), Absent),
      Dict(Str("dog"), Float(80)),
      Dict(Absent, Absent),
      Dict(Absent, Float(80)),
      Dict(IntV(5), Absent),
      Dict(Str("dog"), Str("high")),
      Dict(Str("dog"), Str("0.9")),
      Scalar(Null),
      Scalar(Str("hello")),
      Scalar(Str("")),
      Scalar(IntV(0)),
      Scalar(IntV(7)),
      Scalar(BoolV(TRUE)),
      Scalar(BoolV(FALSE)) }

-----------------------------------------------------------------------------
(* URLs.  The text of a URL is kept by its parts: scheme://host/path.  A   *)
(* text that is no URL has an empty scheme and host.                       *)

Url(scheme, host, path) == [scheme |-> scheme, host |-> host, path |-> path]
NoUrl == Url("", "", "")

\* pydantic's HttpUrl: an http or https scheme and a host.
IsHttpUrl(u) == u.scheme \in {"http", "https"} /\ u.host # ""

\* An absolute URL: a scheme and a host.
IsAbsoluteUrl(u) == u.scheme # "" /\ u.host # ""

-----------------------------------------------------------------------------
(* Responses.  One record shape serves the three endpoints; a field an     *)
(* endpoint does not set keeps its empty value.  body tells what was sent: *)
(* "model" (the endpoint's own JSON), "detail" (an HTTPException rendered  *)
(* by the framework), "validation" (the framework's answer to a malformed  *)
(* request) or "handler_dict" (what a registered status handler returned). *)

NoResp ==
    [status |-> 0, body |-> "none", success |-> FALSE, detail |-> "",
     error |-> "", details |-> "", message |-> "",
     file_url |-> NoUrl, file_name |-> <<>>, file_size |-> 0, upload_id |-> "",
     answer |-> "", confidence |-> 0, question |-> <<>>, processing_time |-> 0,
     cloudinary_status |-> "", hf_status |-> ""]

\* str(exc) of an HTTPException.
StrHTTPException(status, detail) == ToString(status) \o ": " \o detail

\* @app.exception_handler(413): returns a plain dict.
payload_too_large_handler(status, detail) ==
    [NoResp EXCEPT !.body = "handler_dict", !.error = "File too large"]

\* @app.exception_handler(422): returns a plain dict.
validation_exception_handler(status, detail) ==
    [NoResp EXCEPT !.body = "handler_dict", !.error = "Validation error",
                   !.details = StrHTTPException(status, detail)]

\* The responses a raised HTTPException(status, detail) may end in.  A
\* status with a registered handler gets what the handler returned; the
\* handlers return a dict, not a response object, so the framework either
\* fails to send it (a server error) or sends it under the exception's
\* status: both are kept.  Any other status is rendered with its detail.
Raised(status, detail) ==
    IF status = 413
    THEN {[payload_too_large_handler(status, detail) EXCEPT !.status = st] :
             st \in {status, 500}}
    ELSE IF status = 422
    THEN {[validation_exception_handler(status, detail) EXCEPT !.status = st] :
             st \in {status, 500}}
    ELSE {[NoResp EXCEPT !.status = status, !.body = "detail",
                         !.detail = detail]}

\* The framework's own answer to a request that does not fit the endpoint's
\* declared parameters (RequestValidationError): no handler is entered.
RequestValidationError ==
    [NoResp EXCEPT !.status = 422, !.body = "validation"]

-----------------------------------------------------------------------------
(* Request slots.                                                          *)

NoStorage == [kind |-> "none", url |-> NoUrl, msg |-> ""]
NoHf == [kind |-> "none", status |-> 0, shape |-> "none",
         payload |-> Scalar(Null), error |-> "", text |-> ""]

IdleReq ==
    [kind |-> "none", pc |-> "idle",
     has_file |-> FALSE, filename |-> <<>>, size |-> 0,
     file_url |-> NoUrl, has_question |-> FALSE, question |-> <<>>,
     start |-> 0, finish |-> 0, upload_id |-> "", public_id |-> "",
     storageCalls |-> 0, hfCalls |-> 0, statusCalls |-> 0,
     storage |-> NoStorage, hf |-> NoHf,
     parsed |-> [answer |-> Absent, confidence |-> Absent],
     cloudinary_status |-> "unknown",
     resp |-> NoResp]

Done(r, fields, resp) ==
    req' = [req EXCEPT ![r] = [fields EXCEPT !.pc = "done", !.resp = resp]]

-----------------------------------------------------------------------------
(* init_cloudinary.                                                        *)

CLOUDINARY_NOT_CONFIGURED ==
    "Cloudinary not configured. Set CLOUDINARY_CLOUD_NAME, CLOUDINARY_API_KEY, and CLOUDINARY_API_SECRET environment variables."

\* The outcomes of init_cloudinary(): "ok" (the library's configuration is
\* set from the environment), or an HTTPException 500, raised when a
\* variable is missing or when cloudinary.config() itself raises.
init_cloudinary ==
    IF ~CloudinaryConfigured
    THEN {[ok |-> FALSE, status |-> 500, detail |-> CLOUDINARY_NOT_CONFIGURED]}
    ELSE {[ok |-> TRUE, status |-> 200, detail |-> ""],
          [ok |-> FALSE, status |-> 500,
           detail |-> "Failed to initialize Cloudinary: config error"]}

-----------------------------------------------------------------------------
(* POST /upload.                                                           *)

\* A variant of validate_file that looks for an allowed extension anywhere
\* in the name instead of at its end.
Contains(s, e) ==
    \E i \in 1..Len(s) : i + Len(e) - 1 <= Len(s) /\ SubSeq(s, i, i + Len(e) - 1) = e

validate_file_anywhere(filename) ==
    IF filename = <<>>
    THEN [ok |-> FALSE, msg |-> "No filename provided"]
    ELSE IF \A e \in ALLOWED_EXTENSIONS : ~Contains(Lower(filename), e)
    THEN [ok |-> FALSE, msg |-> "Unsupported file type"]
    ELSE [ok |-> TRUE, msg |-> "Valid file"]

validate_file(filename) ==
    IF filename = <<>>
    THEN [ok |-> FALSE, msg |-> "No filename provided"]
    ELSE IF Lower(SplitExt(filename)) \notin ALLOWED_EXTENSIONS
    THEN [ok |-> FALSE, msg |-> "Unsupported file type"]
    ELSE [ok |-> TRUE, msg |-> "Valid file"]

MiB == 1024 * 1024

\* f"{x / (1024*1024):.1f}": tenths of a MiB, rounded half to even.
Tenths(bytes) ==
    LET q == (bytes * 10) \div MiB
        rem == (bytes * 10) % MiB
    IN  IF 2 * rem > MiB THEN q + 1
        ELSE IF 2 * rem = MiB THEN q + (q % 2)
        ELSE q

Fmt1(bytes) == ToString(Tenths(bytes) \div 10) \o "." \o ToString(Tenths(bytes) % 10)

TooLargeDetail(size) ==
    "File too large (" \o Fmt1(size) \o "MB). Maximum size: "
        \o Fmt1(MAX_FILE_SIZE) \o "MB"

UUIDs == {"6f1c", "a2e9"}

generate_cloudinary_public_id(unique_id) == "vqa-smartdoc/" \o unique_id

\* cloudinary.uploader.upload(...): the one outbound call of an upload.
uploader_upload(me) ==
    [me EXCEPT !.storageCalls = @ + 1, !.pc = "awaiting_storage"]

\* upload_file up to its outbound call: validation, the size checks,
\* init_cloudinary and the start of cloudinary.uploader.upload.
upload_file(r, has_file, filename, size) ==
    /\ req[r].pc = "idle"
    /\ LET me == [IdleReq EXCEPT !.kind = "upload", !.has_file = has_file,
                                 !.filename = filename, !.size = size,
                                 !.start = now]
           v == validate_file(filename)
       IN  IF ~has_file
           THEN /\ Done(r, [me EXCEPT !.filename = <<>>, !.size = 0],
                        \* no file part: File(...) is required
                        RequestValidationError)
                /\ UNCHANGED sdkConfig
           ELSE IF ~v.ok
           THEN /\ \E resp \in Raised(400, v.msg) : Done(r, me, resp)
                /\ UNCHANGED sdkConfig
           ELSE IF size > MAX_FILE_SIZE
           THEN /\ \E resp \in Raised(413, TooLargeDetail(size)) : Done(r, me, resp)
                /\ UNCHANGED sdkConfig
           ELSE IF size = 0
           THEN /\ \E resp \in Raised(400, "Empty file provided") : Done(r, me, resp)
                /\ UNCHANGED sdkConfig
           ELSE \E upload_id \in UUIDs, unique_id \in UUIDs, i \in init_cloudinary :
                  IF ~i.ok
                  THEN /\ \E resp \in Raised(i.status, i.detail) :
                            Done(r, [me EXCEPT !.upload_id = upload_id], resp)
                       /\ UNCHANGED sdkConfig
                  ELSE /\ sdkConfig' = "set"
                       /\ req' = [req EXCEPT ![r] =
                            uploader_upload(
                              [me EXCEPT !.upload_id = upload_id,
                                         !.public_id =
                                            generate_cloudinary_public_id(unique_id)])]
    /\ UNCHANGED <<env, now>>

\* What cloudinary.uploader.upload may come back with: a result with a
\* secure_url (an https URL of the stored object, by the collaborator's
\* contract), a result without one or with an empty one, or an exception.
StorageOutcomes(public_id) ==
    {[kind |-> "ok", msg |-> "",
      url |-> Url("https", "res.cloudinary.com",
                  "/demo/" \o rt \o "/upload/v1/" \o public_id)] :
        rt \in {"image", "raw"}}
    \cup {[kind |-> k, url |-> NoUrl, msg |-> ""] : k \in {"no_url", "empty_url"}}
    \cup {[kind |-> "error", url |-> NoUrl, msg |-> m] :
            m \in {"Invalid api_key", "File size too large"}}

\* A variant of the URL check that only minds a missing secure_url.
MissingUrl_absentOnly(o) == o.kind = "no_url"

\* not upload_result.get('secure_url')
MissingUrl(o) == o.kind \in {"no_url", "empty_url"}

\* upload_to_cloudinary from the return of the outbound call on, and the
\* rest of upload_file.
upload_to_cloudinary(r, o) ==
    /\ req[r].pc = "awaiting_storage"
    /\ o \in StorageOutcomes(req[r].public_id)
    /\ LET me == [req[r] EXCEPT !.storage = o, !.finish = now]
       IN  IF o.kind = "error"
           THEN \E resp \in Raised(500, "Cloudinary upload failed: " \o o.msg) :
                    Done(r, me, resp)
           ELSE IF MissingUrl(o)
           THEN \* raised inside the try block, caught and raised again
                \E resp \in Raised(500, "Cloudinary upload failed: " \o
                      StrHTTPException(500, "Failed to get Cloudinary URL from upload result")) :
                    Done(r, me, resp)
           ELSE Done(r, me,
                     [NoResp EXCEPT !.status = 200, !.body = "model",
                                    !.success = TRUE,
                                    !.message = "File uploaded successfully to Cloudinary",
                                    !.file_url = o.url,
                                    !.file_name = me.filename,
                                    !.file_size = me.size,
                                    !.upload_id = me.upload_id])
    /\ UNCHANGED <<env, sdkConfig, now>>

-----------------------------------------------------------------------------
(* POST /ask.                                                              *)

HF_NOT_CONFIGURED ==
    "HuggingFace API token not configured. Set HUGGINGFACE_API_TOKEN environment variable."

QUESTION_TOO_SHORT == "Question must be at least 3 characters long"

\* A variant of the question check that measures the question untrimmed.
QuestionTooShort_untrimmed(question) == question = <<>> \/ Len(question) < 3

\* not request.question or len(request.question.strip()) < 3
QuestionTooShort(question) == question = <<>> \/ Len(Strip(question)) < 3

\* A variant of the outbound call that sends the request a second time.
requests_post_twice(me) == [me EXCEPT !.hfCalls = @ + 2, !.pc = "awaiting_hf"]

\* requests.post(HUGGINGFACE_MODEL_URL, ..., timeout=30): the one outbound
\* call of a question.
requests_post(me) == [me EXCEPT !.hfCalls = @ + 1, !.pc = "awaiting_hf"]

\* ask_question up to its outbound call: the request model (VQARequest),
\* the handler's own validation, the token check of query_huggingface_vqa
\* and the start of requests.post.
ask_question(r, file_url, has_question, question) ==
    /\ req[r].pc = "idle"
    /\ LET me == [IdleReq EXCEPT !.kind = "ask", !.file_url = file_url,
                                 !.has_question = has_question,
                                 !.question = IF has_question THEN question ELSE <<>>,
                                 !.start = now]
       IN  IF ~IsHttpUrl(file_url) \/ ~has_question
           THEN Done(r, me, RequestValidationError)
           ELSE IF file_url = NoUrl
           THEN \E resp \in Raised(400, "file_url is required") : Done(r, me, resp)
           ELSE IF QuestionTooShort(question)
           THEN \E resp \in Raised(400, QUESTION_TOO_SHORT) : Done(r, me, resp)
           ELSE IF ~HfConfigured
           THEN \E resp \in Raised(500, HF_NOT_CONFIGURED) : Done(r, me, resp)
           ELSE req' = [req EXCEPT ![r] = requests_post(me)]
    /\ UNCHANGED <<env, sdkConfig, now>>

\* What requests.post may come back with: a timeout, another request
\* failure, or an HTTP response.  A 200 response holds a JSON payload or a
\* body that is no JSON; an error response holds a JSON object with an
\* "error" member, one without, a JSON list, or a body that is no JSON.
HfHttp(status, shape, payload, error, text) ==
    [kind |-> "http", status |-> status, shape |-> shape, payload |-> payload,
     error |-> error, text |-> text]

ErrorStatuses == {503, 401, 400, 404, 413, 422, 429, 500}

HfOutcomes ==
    {[NoHf EXCEPT !.kind = k] : k \in {"timeout", "conn_error"}}
    \cup {HfHttp(200, "json", p, "", "") : p \in Payloads}
    \cup {HfHttp(200, "not_json", Scalar(Null), "", "<html>ok</html>")}
    \cup {HfHttp(st, sh, Scalar(Null), "Model too busy", "upstream body") :
            st \in ErrorStatuses,
            sh \in {"dict_error", "dict_other", "list", "not_json"}}

\* The detail of the HTTPException raised for any other upstream status.
HfErrorMsg(o) ==
    "HuggingFace API error: " \o ToString(o.status) \o " - " \o
        (IF o.shape = "dict_error" THEN o.error ELSE o.text)

MODEL_LOADING == "Model is loading, please try again in a few moments"

\* float(text) of the texts that spell a number, in hundredths.
NumericText == [x \in {"0.9"} |-> 90]

\* VQAResponse(confidence=...): a float field takes a number or a text
\* that spells one, and nothing else of what a payload may hold.
IsNumber(v) ==
    \/ v.t \in {"int", "float"}
    \/ (v.t = "str" /\ v.s \in DOMAIN NumericText)
AsFloat(v) ==
    IF v.t = "int" THEN v.n * 100
    ELSE IF v.t = "str" THEN NumericText[v.s]
    ELSE v.n

\* A variant of AskResult whose start_time is a module-level variable, set
\* by whichever request entered the handler last.
LatestStart ==
    LET starts == {req[s].start : s \in {x \in Slots : req[x].kind = "ask"}}
    IN  CHOOSE t \in starts : \A u \in starts : u <= t

AskResult_sharedStart(me, payload, finish) ==
    LET parsed == parse_vqa_response(payload)
    IN  IF parsed.answer.t # "str" \/ ~IsNumber(parsed.confidence)
        THEN Raised(500, "Failed to process question: unexpected type")
        ELSE {[NoResp EXCEPT !.status = 200, !.body = "model",
                             !.success = TRUE,
                             !.answer = parsed.answer.s,
                             !.confidence = AsFloat(parsed.confidence),
                             !.file_url = me.file_url,
                             !.question = me.question,
                             !.processing_time = finish - LatestStart]}

\* The rest of ask_question once query_huggingface_vqa returned a payload:
\* parse it, take the time, log, build the VQAResponse.  A parsed answer
\* that is no string fails in the log line's answer[:30], a confidence
\* that is no number fails in VQAResponse; the handler's except clause
\* turns either into a 500.
AskResult(me, payload, finish) ==
    LET parsed == parse_vqa_response(payload)
    IN  IF parsed.answer.t # "str" \/ ~IsNumber(parsed.confidence)
        THEN Raised(500, "Failed to process question: unexpected type")
        ELSE {[NoResp EXCEPT !.status = 200, !.body = "model",
                             !.success = TRUE,
                             !.answer = parsed.answer.s,
                             !.confidence = AsFloat(parsed.confidence),
                             !.file_url = me.file_url,
                             !.question = me.question,
                             !.processing_time = finish - me.start]}

\* query_huggingface_vqa from the return of requests.post on, and the rest
\* of ask_question.
query_huggingface_vqa(r, o) ==
    /\ req[r].pc = "awaiting_hf"
    /\ LET me == [req[r] EXCEPT !.hf = o, !.finish = now,
                                !.parsed = IF o.kind = "http" /\ o.status = 200
                                              /\ o.shape = "json"
                                           THEN parse_vqa_response(o.payload)
                                           ELSE @]
           resps ==
             IF o.kind = "timeout"
             THEN Raised(504, "Request timeout to HuggingFace API")
             ELSE IF o.kind = "conn_error"
             THEN Raised(500, "Request failed: connection error")
             ELSE IF o.status = 200
             THEN IF o.shape = "json"
                  THEN AskResult(me, o.payload, now)
                  ELSE \* response.json() raises a RequestException
                       Raised(500, "Request failed: invalid JSON")
             ELSE IF o.status = 503
             THEN Raised(503, MODEL_LOADING)
             ELSE IF o.status = 401
             THEN Raised(401, "Invalid HuggingFace API token")
             ELSE Raised(o.status, HfErrorMsg(o))
       IN  \E resp \in resps : Done(r, me, resp)
    /\ UNCHANGED <<env, sdkConfig, now>>

-----------------------------------------------------------------------------
(* GET /health.                                                            *)

\* requests.get(".../status/Salesforce/blip-vqa-base", ..., timeout=5)
requests_get(me) == [me EXCEPT !.statusCalls = @ + 1, !.pc = "awaiting_status"]

\* detailed_health_check up to its outbound call: the Cloudinary check,
\* which is local, and the start of requests.get when a token is set.
detailed_health_check(r) ==
    /\ req[r].pc = "idle"
    /\ \E i \in init_cloudinary :
         LET \* cloudinary.config().cloud_name after init_cloudinary
             cloud_name_set == sdkConfig = "set" \/ i.ok
             cs == IF ~CloudinaryConfigured THEN "not_configured"
                   ELSE IF ~i.ok
                   THEN "error: " \o StrHTTPException(i.status, i.detail)
                   ELSE IF cloud_name_set THEN "accessible"
                   ELSE "config_error"
             me == [IdleReq EXCEPT !.kind = "health", !.start = now,
                                   !.cloudinary_status = cs]
         IN  /\ sdkConfig' = IF CloudinaryConfigured /\ i.ok THEN "set"
                             ELSE sdkConfig
             /\ IF HfConfigured
                THEN req' = [req EXCEPT ![r] = requests_get(me)]
                ELSE Done(r, me,
                          [NoResp EXCEPT !.status = 200, !.body = "model",
                                         !.cloudinary_status = cs,
                                         !.hf_status = "not_configured"])
    /\ UNCHANGED <<env, now>>

StatusOutcomes ==
    {[NoHf EXCEPT !.kind = k] : k \in {"timeout", "conn_error"}}
    \cup {HfHttp(st, "json", Scalar(Null), "", "") : st \in {200, 401, 404, 503}}

\* A variant of the status text that takes any HTTP response for success.
HfStatusText_anyResponse(o) ==
    IF o.kind = "timeout" THEN "error: timed out"
    ELSE IF o.kind = "conn_error" THEN "error: connection error"
    ELSE "accessible"

\* hf_status from the outcome of requests.get.
HfStatusText(o) ==
    IF o.kind = "timeout" THEN "error: timed out"
    ELSE IF o.kind = "conn_error" THEN "error: connection error"
    ELSE IF o.status = 200 THEN "accessible"
    ELSE "status_" \o ToString(o.status)

\* detailed_health_check from the return of requests.get on.
hf_status_check(r, o) ==
    /\ req[r].pc = "awaiting_status"
    /\ LET me == [req[r] EXCEPT !.hf = o, !.finish = now]
           hs == HfStatusText(o)
       IN  Done(r, me,
                [NoResp EXCEPT !.status = 200, !.body = "model",
                               !.cloudinary_status = me.cloudinary_status,
                               !.hf_status = hs])
    /\ UNCHANGED <<env, sdkConfig, now>>

-----------------------------------------------------------------------------
(* The server.                                                             *)

\* The response is sent and the slot takes the next request.
Complete(r) ==
    /\ req[r].pc = "done"
    /\ req' = [req EXCEPT ![r] = IdleReq]
    /\ UNCHANGED <<env, sdkConfig, now>>

Tick ==
    /\ now < MaxTime
    /\ now' = now + 1
    /\ UNCHANGED <<env, sdkConfig, req>>

Filenames ==
    { <<>>,
      <<"a", ".", "p", "n", "g">>,
      <<"A", ".", "P", "N", "G">>,
      <<"a", ".", "j", "p", "e", "g">>,
      <<"a", ".", "e", "x", "e">>,
      <<"a", ".", "p", "n", "g", ".", "e", "x", "e">>,
      <<".", "p", "n", "g">>,
      <<"a", "p", "n", "g">>,
      <<"d", ".", "p", "n", "g", "/", "a">>,
      <<"a", ".">> }

Sizes ==
    {0, 1, MAX_FILE_SIZE, MAX_FILE_SIZE + 1, MAX_FILE_SIZE + 262144, 11 * MiB}

FileUrls ==
    { Url("https", "res.cloudinary.com", "/demo/image/upload/v1/vqa-smartdoc/6f1c"),
      Url("http", "example.com", "/b.png"),
      Url("ftp", "example.com", "/c.png"),
      Url("", "", "not a url"),
      NoUrl }

Questions ==
    { <<>>,
      <<" ", " ", " ", " ">>,
      <<"a", "b">>,
      <<" ", "a", "b", "\t">>,
      <<"a", " ", "b">>,
      <<"w", "h", "o">>,
      <<" ", "w", "h", "a", "t", "?", " ">> }

Init ==
    /\ env \in [cloud_name : BOOLEAN, api_key : BOOLEAN, api_secret : BOOLEAN,
                hf_token : BOOLEAN]
    /\ sdkConfig = "unset"
    /\ now = 0
    /\ req = [r \in Slots |-> IdleReq]

\* Requests served one at a time, over every input.
Next ==
    \/ \E has_file \in BOOLEAN, filename \in Filenames, size \in Sizes :
          upload_file("r1", has_file, filename, size)
    \/ \E o \in StorageOutcomes(req["r1"].public_id) : upload_to_cloudinary("r1", o)
    \/ \E file_url \in FileUrls, has_question \in BOOLEAN, question \in Questions :
          ask_question("r1", file_url, has_question, question)
    \/ \E o \in HfOutcomes : query_huggingface_vqa("r1", o)
    \/ detailed_health_check("r1")
    \/ \E o \in StatusOutcomes : hf_status_check("r1", o)
    \/ Complete("r1")
    \/ Tick

Spec == Init /\ [][Next]_vars

-----------------------------------------------------------------------------
(* Two questions served at the same time, over the outcomes of the         *)
(* inference call that differ in how the response is built.                *)

ConcUrls ==
    { Url("https", "res.cloudinary.com", "/demo/image/upload/v1/vqa-smartdoc/6f1c"),
      Url("http", "example.com", "/b.png") }

ConcQuestions ==
    { <<"a", "b">>, <<"w", "h", "o">>, <<" ", "w", "h", "a", "t", "?", " ">> }

ConcOutcomes ==
    {[NoHf EXCEPT !.kind = "timeout"]}
    \cup {HfHttp(200, "json", p, "", "") :
            p \in {List(<<CatItem>>), Dict(Str("dog"), Absent), List(<<>>)}}
    \cup {HfHttp(503, "dict_error", Scalar(Null), "Model too busy", "upstream body")}

InitConc ==
    /\ env = [cloud_name |-> TRUE, api_key |-> TRUE, api_secret |-> TRUE,
              hf_token |-> TRUE]
    /\ sdkConfig = "unset"
    /\ now = 0
    /\ req = [r \in Slots |-> IdleReq]

NextConc ==
    \/ \E r \in Slots, file_url \in ConcUrls, question \in ConcQuestions :
          ask_question(r, file_url, TRUE, question)
    \/ \E r \in Slots, o \in ConcOutcomes : query_huggingface_vqa(r, o)
    \/ Tick

SpecConc == InitConc /\ [][NextConc]_vars

-----------------------------------------------------------------------------
(* Claims.                                                                 *)

Finished(r, kind) == req[r].kind = kind /\ req[r].pc = "done"

\* The extensions the upload contract allows.
ContractExtensions ==
    { <<".", "j", "p", "g">>, <<".", "j", "p", "e", "g">>,
      <<".", "p", "n", "g">>, <<".", "g", "i", "f">>,
      <<".", "p", "d", "f">>, <<".", "w", "e", "b", "p">> }

C1_Case(q) ==
    /\ q.kind = "upload"
    /\ q.has_file
    /\ \/ q.filename = <<>>
       \/ Lower(SplitExt(q.filename)) \notin ContractExtensions
       \/ q.size = 0

\* C1: an upload whose file part has no filename, an extension (compared
\* case-insensitively) outside {.jpg, .jpeg, .png, .gif, .pdf, .webp}, or a
\* body of length 0 is rejected with HTTP 400, and no call to the storage
\* collaborator is made for it.
C1_ValidationRejects ==
    \A r \in Slots :
        C1_Case(req[r]) =>
            /\ req[r].pc = "done"
            /\ req[r].resp.status = 400
            /\ req[r].resp.body = "detail"
            /\ req[r].storageCalls = 0

\* An upload named A.PNG (allowed once lowered) with an empty body, under a
\* configured storage collaborator, rejected with 400.
C1_Witness ==
    /\ CloudinaryConfigured
    /\ Finished("r1", "upload")
    /\ req["r1"].filename = <<"A", ".", "P", "N", "G">>
    /\ req["r1"].size = 0
    /\ req["r1"].resp.status = 400

C2_Case(q) ==
    /\ q.kind = "upload"
    /\ q.has_file
    /\ q.filename # <<>>
    /\ Lower(SplitExt(q.filename)) \in ContractExtensions

\* C2: an upload with an allowed filename whose body exceeds 10 MiB is
\* answered with HTTP 413 and a message that reports the body's size, and
\* no storage call is made; a body of exactly 10 MiB is not rejected for
\* size.
C2_TooLargeIs413 ==
    \A r \in Slots :
        (C2_Case(req[r]) /\ req[r].pc = "done") =>
            /\ req[r].size > 10 * 1024 * 1024 =>
                  /\ req[r].resp.status = 413
                  /\ req[r].resp.detail = TooLargeDetail(req[r].size)
                  /\ req[r].storageCalls = 0
            /\ req[r].size = 10 * 1024 * 1024 => req[r].resp.status # 413

C3_Short(q) == q.kind = "ask" /\ q.has_question /\ Len(Strip(q.question)) < 3

\* C3 as stated: every /ask request whose question has trimmed length < 3
\* is rejected with HTTP 400 before any inference call.
C3_ShortQuestionIs400 ==
    \A r \in Slots :
        C3_Short(req[r]) =>
            /\ req[r].pc = "done"
            /\ req[r].resp.status = 400
            /\ req[r].hfCalls = 0

\* C3 (amended): an /ask request whose question has trimmed length < 3 is
\* rejected before any inference call, whether or not the token is
\* configured: with HTTP 400 when its fileUrl is a valid http(s) URL, and
\* with the request-shape status 422 when it is not.
C3_ShortQuestionRejected ==
    \A r \in Slots :
        C3_Short(req[r]) =>
            /\ req[r].pc = "done"
            /\ req[r].hfCalls = 0
            /\ req[r].resp.status = IF IsHttpUrl(req[r].file_url) THEN 400 ELSE 422
            /\ IsHttpUrl(req[r].file_url) => req[r].resp.detail = QUESTION_TOO_SHORT

\* A question of two letters between whitespace, a valid fileUrl and a
\* configured token: rejected with 400, no call made.
C3_Witness ==
    /\ HfConfigured
    /\ Finished("r1", "ask")
    /\ req["r1"].question = <<" ", "a", "b", "\t">>
    /\ IsHttpUrl(req["r1"].file_url)
    /\ req["r1"].resp.status = 400
    /\ req["r1"].hfCalls = 0

\* C4: the outcome of the inference call of a valid /ask request decides
\* the caller's status: upstream 503 gives 503 with the model-loading
\* message, upstream 401 gives 401, a timeout gives 504, any other non-200
\* status gives an error with that status and the upstream error text, and
\* only upstream 200 leads to a success response.
C4_UpstreamTranslation ==
    \A r \in Slots :
        (Finished(r, "ask") /\ req[r].hf.kind # "none") =>
            LET o == req[r].hf
                resp == req[r].resp
            IN  /\ o.kind = "timeout" => resp.status = 504
                /\ (o.kind = "http" /\ o.status = 503) =>
                      (resp.status = 503 /\ resp.detail = MODEL_LOADING)
                /\ (o.kind = "http" /\ o.status = 401) => resp.status = 401
                /\ (o.kind = "http" /\ o.status \notin {200, 503, 401}) =>
                      /\ resp.status = o.status
                      /\ resp.detail =
                           "HuggingFace API error: " \o ToString(o.status) \o " - "
                              \o (IF o.shape = "dict_error" THEN o.error ELSE o.text)
                /\ resp.success => (o.kind = "http" /\ o.status = 200)

\* The request got a JSON payload with HTTP 200 from the inference call.
GotPayload(r) ==
    /\ Finished(r, "ask")
    /\ req[r].hf.kind = "http" /\ req[r].hf.status = 200
    /\ req[r].hf.shape = "json"

\* The object whose members the parser reads: the payload itself, or the
\* first item of a list.
IsObject(p) == p.t = "dict"
FirstIsObject(p) == p.t = "list" /\ p.items # <<>> /\ p.items[1].t = "dict"
FirstIsNoObject(p) == p.t = "list" /\ p.items # <<>> /\ p.items[1].t # "dict"
ReadObject(p) == IF p.t = "dict" THEN p ELSE p.items[1]

\* A member of a type the response model does not take: an answer that is
\* no string, a score that is null or a text that spells no number.
IllTyped(p) ==
    /\ IsObject(p) \/ FirstIsObject(p)
    /\ \/ ReadObject(p).answer.t \notin {"absent", "str"}
       \/ ReadObject(p).score.t = "null"
       \/ (ReadObject(p).score.t = "str" /\ ReadObject(p).score.s \notin {"0.9"})

EmptyList(p) == p.t = "list" /\ p.items = <<>>
EmptyObject(p) == p.t = "dict" /\ p.answer.t = "absent" /\ p.score.t = "absent"

C5_Case(p) ==
    \/ EmptyList(p)
    \/ p.t = "null"
    \/ EmptyObject(p)
    \/ FirstIsNoObject(p)
    \/ IllTyped(p)

C6_Stated(p) ==
    IF p.t = "list" /\ p.items # <<>>
    THEN [answer |-> IF p.items[1].answer.t = "absent"
                     THEN Str("No answer provided") ELSE p.items[1].answer,
          confidence |-> IF p.items[1].score.t = "absent"
                         THEN Float(0) ELSE p.items[1].score]
    ELSE IF p.t = "dict"
    THEN [answer |-> IF p.answer.t = "absent" THEN Str(PyStr(p)) ELSE p.answer,
          confidence |-> IF p.score.t = "absent" THEN Float(50) ELSE p.score]
    ELSE IF \/ p.t = "null" \/ EmptyList(p) \/ (p.t = "str" /\ p.s = "")
            \/ (p.t \in {"int", "bool"} /\ p.n = 0)
    THEN [answer |-> Str("No answer provided"), confidence |-> Float(50)]
    ELSE [answer |-> Str(PyStr(p)), confidence |-> Float(50)]

\* C6 as stated: a non-empty list yields the first item's answer and score
\* (defaults "No answer provided" and 0.0), an object its answer and score
\* (score default 0.5), anything else its text with confidence 0.5, or "No
\* answer provided" when empty or null.
C6_ParseAsStated ==
    \A r \in Slots : GotPayload(r) => req[r].parsed = C6_Stated(req[r].hf.payload)

\* C6 (amended): a non-empty list whose first item is an object yields
\* that item's answer and score (defaults "No answer provided" and 0.0),
\* and later items never matter; a non-empty list whose first item is no
\* object yields "Error parsing response" with 0.0; an object, empty or
\* not, yields its answer (default: the object's text) and score (default
\* 0.5); anything else yields "No answer provided" when it is falsy (null,
\* an empty list, an empty string, 0, false) and its text otherwise, with
\* confidence 0.5.
C6_ParseMapping ==
    \A r \in Slots :
        GotPayload(r) =>
            LET p == req[r].hf.payload
                got == req[r].parsed
                first == p.items[1]
            IN  /\ FirstIsObject(p) =>
                      /\ got.answer = IF first.answer.t = "absent"
                                      THEN Str("No answer provided") ELSE first.answer
                      /\ got.confidence = IF first.score.t = "absent"
                                          THEN Float(0) ELSE first.score
                /\ FirstIsNoObject(p) =>
                      got = [answer |-> Str("Error parsing response"),
                             confidence |-> Float(0)]
                /\ p.t = "dict" =>
                      /\ got.answer = IF p.answer.t = "absent"
                                      THEN Str(PyStr(p)) ELSE p.answer
                      /\ got.confidence = IF p.score.t = "absent"
                                          THEN Float(50) ELSE p.score
                /\ (p.t \notin {"list", "dict"} \/ EmptyList(p)) =>
                      /\ got.confidence = Float(50)
                      /\ got.answer =
                           IF \/ p.t = "null" \/ EmptyList(p)
                              \/ (p.t = "str" /\ p.s = "")
                              \/ (p.t \in {"int", "bool"} /\ p.n = 0)
                           THEN Str("No answer provided")
                           ELSE Str(PyStr(p))
                /\ p = List(<<CatItem>>) =>
                      got = [answer |-> Str("cat"), confidence |-> Float(92)]
                /\ p = Dict(Str("dog"), Absent) =>
                      got = [answer |-> Str("dog"), confidence |-> Float(50)]

\* A list of two candidates: the first one's answer and score are taken.
C6_Witness ==
    /\ GotPayload("r1")
    /\ req["r1"].hf.payload = List(<<CatItem, Obj(Str("dog"), Float(5))>>)
    /\ req["r1"].parsed = [answer |-> Str("cat"), confidence |-> Float(92)]

\* C7: an upload answered with HTTP 200 returns the body's length as
\* fileSize, the submitted filename as fileName, and as fileUrl the
\* absolute URL the storage collaborator returned for this request; a
\* collaborator result without a URL never gives a success response.
C7_UploadSuccess ==
    \A r \in Slots :
        Finished(r, "upload") =>
            /\ req[r].resp.status = 200 =>
                  /\ req[r].resp.success
                  /\ req[r].resp.file_size = req[r].size
                  /\ req[r].resp.file_name = req[r].filename
                  /\ req[r].storage.kind = "ok"
                  /\ req[r].resp.file_url = req[r].storage.url
                  /\ IsAbsoluteUrl(req[r].resp.file_url)
            /\ req[r].storage.kind \in {"no_url", "empty_url"} =>
                  (req[r].resp.status = 500 /\ ~req[r].resp.success)

\* A body of exactly 10 MiB named A.PNG, stored and answered with its URL.
C7_Witness ==
    /\ Finished("r1", "upload")
    /\ req["r1"].filename = <<"A", ".", "P", "N", "G">>
    /\ req["r1"].size = MAX_FILE_SIZE
    /\ req["r1"].resp.status = 200
    /\ req["r1"].resp.file_size = MAX_FILE_SIZE
    /\ req["r1"].resp.file_url.scheme = "https"

\* C8: a handler invocation makes at most one outbound call and retries
\* nothing: an /ask request makes exactly one inference attempt when its
\* validation and the token check pass, whatever the attempt's outcome, and
\* none otherwise; an /upload request makes at most one storage attempt.
C8_SingleAttempt ==
    \A r \in Slots :
        LET q == req[r]
        IN  /\ q.storageCalls + q.hfCalls + q.statusCalls <= 1
            /\ q.kind = "ask" =>
                  /\ q.storageCalls = 0 /\ q.statusCalls = 0
                  /\ q.hfCalls =
                       IF /\ IsHttpUrl(q.file_url) /\ q.has_question
                          /\ Len(Strip(q.question)) >= 3
                          /\ HfConfigured
                       THEN 1 ELSE 0
                  /\ (q.pc = "done" /\ q.hf.kind # "none") => q.hfCalls = 1
            /\ q.kind = "upload" => (q.hfCalls = 0 /\ q.statusCalls = 0)
            /\ q.kind = "health" => (q.hfCalls = 0 /\ q.storageCalls = 0)

\* An /ask request answered 503 by the collaborator: finished after one
\* attempt.
C8_Witness ==
    /\ Finished("r1", "ask")
    /\ req["r1"].hf.kind = "http" /\ req["r1"].hf.status = 503
    /\ req["r1"].resp.status = 503
    /\ req["r1"].hfCalls = 1

\* C9: GET /health answers HTTP 200 whatever the configuration and the
\* collaborators' outcomes; a collaborator's status is "accessible", an
\* error detail or "not_configured", it is "not_configured" exactly when
\* its configuration is absent, and then no check against it is made.
C9_HealthAlways200 ==
    /\ sdkConfig = "set" => CloudinaryConfigured
    /\ \A r \in Slots :
        /\ (req[r].kind = "health" /\ ~HfConfigured) => req[r].statusCalls = 0
        /\ Finished(r, "health") =>
            LET resp == req[r].resp
                o == req[r].hf
            IN  /\ resp.status = 200
                /\ resp.body = "model"
                /\ resp.cloudinary_status = "not_configured" <=> ~CloudinaryConfigured
                /\ resp.hf_status = "not_configured" <=> ~HfConfigured
                /\ resp.cloudinary_status # "" /\ resp.hf_status # ""
                /\ HfConfigured =>
                      /\ req[r].statusCalls = 1
                      /\ resp.hf_status = "accessible"
                            <=> (o.kind = "http" /\ o.status = 200)

\* A status probe whose inference check times out while storage fails to
\* initialise: still answered 200, the failures in the body.
C9_Witness ==
    /\ Finished("r1", "health")
    /\ CloudinaryConfigured /\ HfConfigured
    /\ req["r1"].hf.kind = "timeout"
    /\ req["r1"].resp.status = 200
    /\ req["r1"].resp.hf_status = "error: timed out"
    /\ req["r1"].resp.cloudinary_status \notin {"accessible", "not_configured"}

\* C10: under any interleaving of two /ask requests, each response is
\* decided by the request's own input, its own upstream response and its
\* own start and end times.
C10_OwnResponse ==
    \A r \in Slots :
        Finished(r, "ask") =>
            LET q == req[r]
                resp == q.resp
            IN  IF q.hf.kind = "http" /\ q.hf.status = 200 /\ q.hf.shape = "json"
                   /\ q.parsed.answer.t = "str" /\ IsNumber(q.parsed.confidence)
                THEN /\ resp.status = 200 /\ resp.success
                     /\ q.parsed = parse_vqa_response(q.hf.payload)
                     /\ resp.answer = q.parsed.answer.s
                     /\ resp.confidence = AsFloat(q.parsed.confidence)
                     /\ resp.file_url = q.file_url
                     /\ resp.question = q.question
                     /\ resp.processing_time = q.finish - q.start
                ELSE /\ ~resp.success
                     /\ resp.status =
                          IF q.hf.kind = "none" THEN 400
                          ELSE IF q.hf.kind = "timeout" THEN 504
                          ELSE q.hf.status

\* Two questions about different files in flight at once, the second
\* entered after the first and answered before it, each with its own
\* answer and its own elapsed time.
C10_Witness ==
    /\ Finished("r1", "ask") /\ Finished("r2", "ask")
    /\ req["r1"].file_url # req["r2"].file_url
    /\ req["r1"].question # req["r2"].question
    /\ req["r1"].start < req["r2"].start
    /\ req["r2"].finish < req["r1"].finish
    /\ req["r1"].resp.success /\ req["r2"].resp.success
    /\ req["r1"].resp.answer = "cat" /\ req["r2"].resp.answer = "dog"
    /\ req["r1"].resp.processing_time = 2
    /\ req["r2"].resp.processing_time = 0

====
